---- MODULE Spec2Model ----
(***************************************************************************)
(* Verification model of the three causal-flow engines of the repository:  *)
(*   - Bayesian_Causality.py : BayesianNetwork (bc_* variables, SpecBC)     *)
(*   - v2.py                 : BayesianNetwork (v2_* variables, SpecV2)     *)
(*   - tp.py                 : ModernBayesianNetworkApp (tp_*, SpecTP)      *)
(* Each program is a state machine whose state is the graph it holds; the  *)
(* analysis methods are operators over that graph, applied by actions that *)
(* record the value returned.                                              *)
(*                                                                         *)
(* Node names are drawn in the order of a fixed tuple (the k-th distinct   *)
(* name registered is the k-th entry).  The code compares names only for   *)
(* equality and never orders them, so every graph the programs can hold is *)
(* reachable up to a renaming of its nodes.                                *)
(***************************************************************************)
EXTENDS Integers, Sequences, FiniteSets, TLC

VARIABLES bc_nodes, bc_relations, bc_result,
          v2_nodes, v2_relations, v2_adjacency, v2_result,
          tp_variables, tp_relations, tp_etats, tp_result

vars == <<bc_nodes, bc_relations, bc_result,
          v2_nodes, v2_relations, v2_adjacency, v2_result,
          tp_variables, tp_relations, tp_etats, tp_result>>

bc_vars == <<bc_nodes, bc_relations, bc_result>>
v2_vars == <<v2_nodes, v2_relations, v2_adjacency, v2_result>>
tp_vars == <<tp_variables, tp_relations, tp_etats, tp_result>>

(***************************************************************************)
(* Shared vocabulary                                                       *)
(***************************************************************************)

\* NodeState
KNOWN == "known"
UNKNOWN == "unknown"
NodeState == {KNOWN, UNKNOWN}

\* Direction
FORWARD == "->"
BACKWARD == "<-"
Direction == {FORWARD, BACKWARD}

\* RelationType; None is Python's None.  The members are compared as enum
\* members, never by value (v2.py spells SERIES "series", Bayesian_Causality.py
\* "en_serie").
CONVERGENTE == "convergente"
SERIES == "series"
DIVERGENTE == "divergente"
None == "None"

\* No call of the analysis since the graph last changed.
NoResult == [call |-> "none"]

\* Bounds of the model: the longest relation list of each program.
MaxRelationsBC == 3
MaxRelationsV2 == 3
MaxRelationsTP == 3

\* The names a graph may use, in the order in which they are registered.
NamesBC == <<"A", "B", "C">>
NamesV2 == <<"A", "B", "C">>
NamesTP == <<"A", "B", "C">>
NamesTPLong == <<"A", "B", "C", "D">>

Range(s) == {s[i] : i \in 1..Len(s)}

Reverse(s) == [i \in 1..Len(s) |-> s[Len(s) + 1 - i]]

\* s is a proper prefix of t
IsProperPrefix(s, t) == Len(s) < Len(t) /\ SubSeq(t, 1, Len(s)) = s

RECURSIVE IsSubsequence(_, _)
\* s occurs in t as a (not necessarily contiguous) subsequence
IsSubsequence(s, t) ==
    IF s = <<>> THEN TRUE
    ELSE IF t = <<>> THEN FALSE
    ELSE IF Head(s) = Head(t) THEN IsSubsequence(Tail(s), Tail(t))
    ELSE IsSubsequence(s, Tail(t))

(***************************************************************************)
(* Bayesian_Causality.py : BayesianNetwork                                 *)
(* nodes is the insertion-ordered dict name -> Node, kept as the sequence   *)
(* of its values; a Relation holds its source and target by name.          *)
(***************************************************************************)

bc_names(nodes) == {nodes[i].name : i \in 1..Len(nodes)}

\* self.nodes[name].state
bc_state_of(nodes, name) ==
    (CHOOSE n \in Range(nodes) : n.name = name).state

\* add_node: a name already registered keeps its node
bc_add_node(nodes, name, state) ==
    IF name \in bc_names(nodes) THEN nodes
    ELSE Append(nodes, [name |-> name, state |-> state])

\* add_relation, the node mapping it leaves
bc_add_relation_nodes(nodes, source_name, target_name, source_state, target_state) ==
    bc_add_node(bc_add_node(nodes, source_name, source_state),
                target_name, target_state)

\* add_relation, the relation list it leaves
bc_add_relation_relations(relations, source_name, target_name, direction) ==
    Append(relations, [source |-> source_name, target |-> target_name,
                       direction |-> direction])

\* has_cycle.dfs: neighbors = [r.target for r in self.relations
\*                             if r.source == node and r.direction == FORWARD]
bc_neighbors(relations, node) ==
    LET Out(r) == r.source = node /\ r.direction = FORWARD
        sel == SelectSeq(relations, Out)
    IN  [i \in 1..Len(sel) |-> sel[i].target]

RECURSIVE bc_walk_parents(_, _, _, _)
\* has_cycle.dfs, the while loop: climb the parent pointers from current to stop
bc_walk_parents(current, stop, parent, cycle) ==
    IF current = stop THEN cycle
    ELSE bc_walk_parents(parent[current], stop, parent,
                         Append(cycle, parent[current]))

\* has_cycle.dfs, the cycle it reconstructs when neighbor is on the recursion stack
bc_reconstruct_cycle(node, neighbor, parent) ==
    Reverse(Append(bc_walk_parents(node, neighbor, parent, <<node>>), neighbor))

RECURSIVE bc_dfs(_, _, _), bc_dfs_loop(_, _, _, _, _)
\* has_cycle.dfs; st = [found, visited, rec_stack, parent, cycle]
bc_dfs(relations, node, st) ==
    LET entered == [st EXCEPT !.visited = @ \cup {node},
                              !.rec_stack = @ \cup {node}]
        r == bc_dfs_loop(relations, node, bc_neighbors(relations, node), 1, entered)
    IN  IF r.found THEN r
        ELSE [r EXCEPT !.rec_stack = @ \ {node}]

\* has_cycle.dfs, the loop over neighbors from position i
bc_dfs_loop(relations, node, neighbors, i, st) ==
    IF i > Len(neighbors) THEN st
    ELSE LET neighbor == neighbors[i] IN
         IF neighbor \notin st.visited
         THEN LET r == bc_dfs(relations, neighbor,
                              [st EXCEPT !.parent[neighbor] = node])
              IN  IF r.found THEN r
                  ELSE bc_dfs_loop(relations, node, neighbors, i + 1, r)
         ELSE IF neighbor \in st.rec_stack /\ st.cycle = <<>>
         THEN [st EXCEPT !.found = TRUE,
                         !.cycle = bc_reconstruct_cycle(node, neighbor, st.parent)]
         ELSE bc_dfs_loop(relations, node, neighbors, i + 1, st)

RECURSIVE bc_has_cycle_from(_, _, _, _)
\* has_cycle, the loop over self.nodes.values() from position i
bc_has_cycle_from(nodes, relations, i, st) ==
    IF i > Len(nodes) THEN <<>>
    ELSE IF nodes[i].name \in st.visited
    THEN bc_has_cycle_from(nodes, relations, i + 1, st)
    ELSE LET r == bc_dfs(relations, nodes[i].name,
                         [st EXCEPT !.parent[nodes[i].name] = None])
         IN  IF r.found THEN r.cycle
             ELSE bc_has_cycle_from(nodes, relations, i + 1, r)

\* has_cycle: the list of node names it returns
bc_has_cycle(nodes, relations) ==
    bc_has_cycle_from(nodes, relations, 1,
        [found |-> FALSE, visited |-> {}, rec_stack |-> {},
         parent |-> [n \in bc_names(nodes) |-> None], cycle |-> <<>>])

\* A triplet of find_all_triplets: (x, z, y, path_segment, relation type).  The
\* path_segment string is determined by the four other components
\* (bc_segment_nodes gives the names it spells), so it is not stored.
bc_triplet(x, z, y, type) == [x |-> x, z |-> z, y |-> y, type |-> type]

\* find_all_triplets, first loop: X -> Z -> Y over FORWARD relations
bc_series_triplets(relations) ==
    LET Fwd(r) == r.direction = FORWARD
        firsts == SelectSeq(relations, Fwd)
        After(rel1) ==
            LET Next(r) == r.source = rel1.target /\ r.direction = FORWARD
                seconds == SelectSeq(relations, Next)
            IN  [j \in 1..Len(seconds) |->
                    bc_triplet(rel1.source, rel1.target, seconds[j].target, SERIES)]
        F[i \in 0..Len(firsts)] ==
            IF i = 0 THEN <<>> ELSE F[i - 1] \o After(firsts[i])
    IN  F[Len(firsts)]

\* the pairs (i, j), i < j <= n, in the order of the two nested loops
bc_pairs(n) ==
    LET Row(i) == [k \in 1..(n - i) |-> <<i, i + k>>]
        F[i \in 0..n] == IF i = 0 THEN <<>> ELSE F[i - 1] \o Row(i)
    IN  F[n]

\* find_all_triplets, second loop: X -> Z <- Y for every node z with two or more
\* incoming FORWARD relations
bc_convergente_triplets(nodes, relations) ==
    LET At(z) ==
            LET In(r) == r.target = z /\ r.direction = FORWARD
                incoming == SelectSeq(relations, In)
                pairs == bc_pairs(Len(incoming))
            IN  IF Len(incoming) >= 2
                THEN [k \in 1..Len(pairs) |->
                        bc_triplet(incoming[pairs[k][1]].source, z,
                                   incoming[pairs[k][2]].source, CONVERGENTE)]
                ELSE <<>>
        F[i \in 0..Len(nodes)] ==
            IF i = 0 THEN <<>> ELSE F[i - 1] \o At(nodes[i].name)
    IN  F[Len(nodes)]

\* find_all_triplets, third loop: Z -> X, Z -> Y for every node z with two or more
\* outgoing FORWARD relations
bc_divergente_triplets(nodes, relations) ==
    LET At(z) ==
            LET Out(r) == r.source = z /\ r.direction = FORWARD
                outgoing == SelectSeq(relations, Out)
                pairs == bc_pairs(Len(outgoing))
            IN  IF Len(outgoing) >= 2
                THEN [k \in 1..Len(pairs) |->
                        bc_triplet(outgoing[pairs[k][1]].target, z,
                                   outgoing[pairs[k][2]].target, DIVERGENTE)]
                ELSE <<>>
        F[i \in 0..Len(nodes)] ==
            IF i = 0 THEN <<>> ELSE F[i - 1] \o At(nodes[i].name)
    IN  F[Len(nodes)]

\* find_all_triplets
bc_find_all_triplets(nodes, relations) ==
    bc_series_triplets(relations)
    \o bc_convergente_triplets(nodes, relations)
    \o bc_divergente_triplets(nodes, relations)

\* compute_final_path, the test of one triplet: whether flow is allowed
bc_flow_allowed(nodes, t) ==
    IF t.type = CONVERGENTE THEN bc_state_of(nodes, t.z) = KNOWN
    ELSE bc_state_of(nodes, t.z) = UNKNOWN

\* The names a path_segment spells, left to right:
\* "x->z->y" (series), "x->z<->y" (convergente), "z->x,z->y" (divergente)
bc_segment_nodes(seg) ==
    IF seg.type = DIVERGENTE THEN <<seg.z, seg.x, seg.z, seg.y>>
    ELSE <<seg.x, seg.z, seg.y>>

\* valid_triplets[(x, z, y)] = (path_segment, rel_type): the dict as the sequence
\* of its items in insertion order; a key assigned again keeps its place and
\* takes the new value
bc_dict_set(d, key, value) ==
    IF \E i \in 1..Len(d) : d[i].key = key
    THEN [i \in 1..Len(d) |-> IF d[i].key = key THEN [key |-> key, value |-> value]
                              ELSE d[i]]
    ELSE Append(d, [key |-> key, value |-> value])

\* compute_final_path, the loop that tests all triplets: valid_triplets
bc_valid_triplets(nodes, triplets) ==
    LET F[i \in 0..Len(triplets)] ==
            IF i = 0 THEN <<>>
            ELSE IF bc_flow_allowed(nodes, triplets[i])
                 THEN bc_dict_set(F[i - 1],
                                  <<triplets[i].x, triplets[i].z, triplets[i].y>>,
                                  triplets[i])
                 ELSE F[i - 1]
    IN  F[Len(triplets)]

\* compute_final_path, the loop that tests all triplets: flow_justifications, one
\* entry per triplet tested (the sentence names x, z, y, the type and the verdict)
bc_flow_justifications(nodes, triplets) ==
    [i \in 1..Len(triplets) |->
        [x |-> triplets[i].x, z |-> triplets[i].z, y |-> triplets[i].y,
         type |-> triplets[i].type, allowed |-> bc_flow_allowed(nodes, triplets[i])]]

\* compute_final_path: first_nodes = all_nodes - target_nodes
bc_first_nodes(nodes, relations) ==
    bc_names(nodes) \ {IF r.direction = FORWARD THEN r.target ELSE r.source :
                       r \in Range(relations)}

\* compute_final_path.build_path: next_triplets, the keys of valid_triplets whose
\* first name is y, in the order of the dict
bc_next_triplets(valid_triplets, y) ==
    LET StartsAtY(item) == item.key[1] = y
        sel == SelectSeq(valid_triplets, StartsAtY)
    IN  [i \in 1..Len(sel) |-> sel[i].key]

\* valid_triplets[key][0], the path_segment stored under key
bc_dict_get(d, key) == (CHOOSE item \in Range(d) : item.key = key).value

RECURSIVE bc_build_path(_, _, _, _, _, _, _), bc_build_path_loop(_, _, _, _, _, _, _, _)
\* compute_final_path.build_path.  acc = [fault, paths] holds final_paths so far.
\* A call chain deeper than the number of valid triplets holds one triplet
\* twice; as the calls made for a triplet depend on that triplet alone, the
\* recursion then never returns and Python ends it with RecursionError (fault).
bc_build_path(valid_triplets, first_nodes, current_triplet, path, start_node, depth, acc) ==
    IF depth > Len(valid_triplets) THEN [acc EXCEPT !.fault = TRUE]
    ELSE LET next_triplets == bc_next_triplets(valid_triplets, current_triplet[3])
         IN  IF next_triplets = <<>>
             THEN IF start_node \in first_nodes
                  THEN [acc EXCEPT !.paths = Append(@, path)]
                  ELSE acc
             ELSE bc_build_path_loop(valid_triplets, first_nodes, next_triplets, 1,
                                     path, start_node, depth, acc)

\* compute_final_path.build_path, the loop over next_triplets from position i
bc_build_path_loop(valid_triplets, first_nodes, next_triplets, i, path, start_node, depth, acc) ==
    IF i > Len(next_triplets) THEN acc
    ELSE LET r == bc_build_path(valid_triplets, first_nodes, next_triplets[i],
                        Append(path, bc_dict_get(valid_triplets, next_triplets[i])),
                        start_node, depth + 1, acc)
         IN  IF r.fault THEN r
             ELSE bc_build_path_loop(valid_triplets, first_nodes, next_triplets,
                                     i + 1, path, start_node, depth, r)

RECURSIVE bc_final_paths_from(_, _, _, _)
\* compute_final_path, the loop that starts build_path from each valid triplet
bc_final_paths_from(valid_triplets, first_nodes, i, acc) ==
    IF i > Len(valid_triplets) THEN acc
    ELSE LET r == bc_build_path(valid_triplets, first_nodes, valid_triplets[i].key,
                                <<valid_triplets[i].value>>,
                                valid_triplets[i].key[1], 1, acc)
         IN  IF r.fault THEN r
             ELSE bc_final_paths_from(valid_triplets, first_nodes, i + 1, r)

\* compute_final_path: final_paths (each path the sequence of the path_segments
\* that "->".join concatenates) and whether the recursion faulted
bc_final_paths(nodes, relations) ==
    bc_final_paths_from(
        bc_valid_triplets(nodes, bc_find_all_triplets(nodes, relations)),
        bc_first_nodes(nodes, relations), 1, [fault |-> FALSE, paths |-> <<>>])

\* The value compute_final_path returns, by its parts:
\*   kind "error"  : "Error: At least one relation is required."
\*   kind "cycle"  : "Cycle detecte : ..." with the names of has_cycle
\*   kind "paths"  : "Final Paths: ..." with final_paths and flow_justifications
\*   kind "RecursionError" : build_path did not return; the exception leaves
\*                           compute_final_path
\* calls lists the methods the call ran, in order, and tested the triplets it
\* evaluated.
bc_result_of(kind, cycle, paths, justifications, calls, tested) ==
    [call |-> "compute_final_path", kind |-> kind, cycle |-> cycle, paths |-> paths,
     justifications |-> justifications, calls |-> calls, tested |-> tested]

\* compute_final_path from the call of find_all_triplets on (no cycle was found)
bc_analyse_triplets(nodes, relations) ==
    LET triplets == bc_find_all_triplets(nodes, relations)
        built == bc_final_paths(nodes, relations)
        calls == <<"has_cycle", "find_all_triplets", "build_path">>
    IN  IF built.fault
        THEN bc_result_of("RecursionError", <<>>, <<>>, <<>>, calls, triplets)
        ELSE bc_result_of("paths", <<>>, built.paths,
                          bc_flow_justifications(nodes, triplets), calls, triplets)

\* Mutant: the cycle found by has_cycle is not acted upon.
bc_compute_final_path_ignoring_cycle(nodes, relations) ==
    IF Len(relations) < 1
    THEN bc_result_of("error", <<>>, <<>>, <<>>, <<>>, <<>>)
    ELSE bc_analyse_triplets(nodes, relations)

\* Mutant: the test for an empty relation list is missing.
bc_compute_final_path_without_guard(nodes, relations) ==
    LET cycle == bc_has_cycle(nodes, relations) IN
    IF cycle # <<>>
    THEN bc_result_of("cycle", cycle, <<>>, <<>>, <<"has_cycle">>, <<>>)
    ELSE bc_analyse_triplets(nodes, relations)

\* compute_final_path
bc_compute_final_path(nodes, relations) ==
    IF Len(relations) < 1
    THEN bc_result_of("error", <<>>, <<>>, <<>>, <<>>, <<>>)
    ELSE LET cycle == bc_has_cycle(nodes, relations) IN
         IF cycle # <<>>
         THEN bc_result_of("cycle", cycle, <<>>, <<>>, <<"has_cycle">>, <<>>)
         ELSE bc_analyse_triplets(nodes, relations)

\* The names a reported path spells, left to right
bc_path_nodes(path) ==
    LET F[i \in 0..Len(path)] ==
            IF i = 0 THEN <<>> ELSE F[i - 1] \o bc_segment_nodes(path[i])
    IN  F[Len(path)]

\* The names add_node may be given: a registered one, or the next unused one
bc_usable_names(nodes) ==
    bc_names(nodes) \cup
    (IF Len(nodes) < Len(NamesBC) THEN {NamesBC[Len(nodes) + 1]} ELSE {})

\* BayesianNetwork.add_node(name, state)
BcAddNode(name, state) ==
    /\ name \in bc_usable_names(bc_nodes)
    /\ bc_nodes' = bc_add_node(bc_nodes, name, state)
    /\ bc_result' = NoResult
    /\ UNCHANGED <<bc_relations, v2_vars, tp_vars>>

\* BayesianNetwork.add_relation(source_name, target_name, direction,
\*                              source_state, target_state)
BcAddRelation(source_name, target_name, direction, source_state, target_state) ==
    /\ Len(bc_relations) < MaxRelationsBC
    /\ source_name \in bc_usable_names(bc_nodes)
    /\ target_name \in bc_usable_names(bc_add_node(bc_nodes, source_name, source_state))
    /\ bc_nodes' = bc_add_relation_nodes(bc_nodes, source_name, target_name,
                                         source_state, target_state)
    /\ bc_relations' = bc_add_relation_relations(bc_relations, source_name,
                                                 target_name, direction)
    /\ bc_result' = NoResult
    /\ UNCHANGED <<v2_vars, tp_vars>>

\* BayesianNetwork.compute_final_path()
BcComputeFinalPath ==
    /\ bc_result' = bc_compute_final_path(bc_nodes, bc_relations)
    /\ UNCHANGED <<bc_nodes, bc_relations, v2_vars, tp_vars>>

\* The longest chain the chain specification builds, in relations.
MaxChain == 4

\* The names of a chain, in the order in which they are registered.
NamesChain == <<"A", "B", "C", "D", "E", "F">>

\* The position, in a relation list that is a forward chain, of the relation
\* that enters no other (the far end) and of the one no other enters (the near end)
BcChainLast(relations) ==
    CHOOSE i \in 1..Len(relations) :
        \A j \in 1..Len(relations) : relations[j].source # relations[i].target

BcChainFirst(relations) ==
    CHOOSE i \in 1..Len(relations) :
        \A j \in 1..Len(relations) : relations[j].target # relations[i].source

\* A forward chain grown by one add_relation call at its far end:
\* add_relation(last, fresh, FORWARD, source_state, target_state)
BcChainAppend(source_state, target_state) ==
    /\ Len(bc_relations) < MaxChain
    /\ LET n == Len(bc_nodes)
           last == IF n = 0 THEN NamesChain[1]
                   ELSE bc_relations[BcChainLast(bc_relations)].target
           fresh == IF n = 0 THEN NamesChain[2] ELSE NamesChain[n + 1]
       IN  /\ bc_nodes' = bc_add_relation_nodes(bc_nodes, last, fresh,
                                                source_state, target_state)
           /\ bc_relations' = bc_add_relation_relations(bc_relations, last, fresh,
                                                        FORWARD)
    /\ bc_result' = NoResult
    /\ UNCHANGED <<v2_vars, tp_vars>>

\* A forward chain grown by one add_relation call at its near end:
\* add_relation(fresh, first, FORWARD, source_state, target_state)
BcChainPrepend(source_state, target_state) ==
    /\ Len(bc_relations) < MaxChain
    /\ Len(bc_relations) >= 1
    /\ LET first == bc_relations[BcChainFirst(bc_relations)].source
           fresh == NamesChain[Len(bc_nodes) + 1]
       IN  /\ bc_nodes' = bc_add_relation_nodes(bc_nodes, fresh, first,
                                                source_state, target_state)
           /\ bc_relations' = bc_add_relation_relations(bc_relations, fresh, first,
                                                        FORWARD)
    /\ bc_result' = NoResult
    /\ UNCHANGED <<v2_vars, tp_vars>>

(***************************************************************************)
(* v2.py : BayesianNetwork                                                 *)
(* nodes is the insertion-ordered dict name -> Node, kept as the sequence   *)
(* of its values; adjacency is the dict name -> list of (name, direction). *)
(***************************************************************************)

v2_names(nodes) == {nodes[i].name : i \in 1..Len(nodes)}

\* self.nodes[name].state
v2_state_of(nodes, name) ==
    (CHOOSE n \in Range(nodes) : n.name = name).state

\* Mutant: add_node stores the state it is given over the state of a name
\* already registered.
v2_add_node_overwriting(nodes, name, state) ==
    IF name \in v2_names(nodes)
    THEN [i \in 1..Len(nodes) |->
             IF nodes[i].name = name THEN [name |-> name, state |-> state]
             ELSE nodes[i]]
    ELSE Append(nodes, [name |-> name, state |-> state])

\* add_node, the node mapping it leaves
v2_add_node(nodes, name, state) ==
    IF name \in v2_names(nodes) THEN nodes
    ELSE Append(nodes, [name |-> name, state |-> state])

\* add_node, the adjacency it leaves: a new name gets the empty list
v2_add_node_adjacency(adjacency, name) ==
    IF name \in DOMAIN adjacency THEN adjacency
    ELSE [n \in DOMAIN adjacency \cup {name} |->
             IF n = name THEN <<>> ELSE adjacency[n]]

\* add_relation, the node mapping it leaves
v2_add_relation_nodes(nodes, source, target, source_state, target_state) ==
    v2_add_node(v2_add_node(nodes, source, source_state), target, target_state)

\* add_relation, the relation list it leaves
v2_add_relation_relations(relations, source, target, direction) ==
    Append(relations, [source |-> source, target |-> target,
                       direction |-> direction])

\* add_relation listing the relation under both of its endpoints
v2_add_relation_adjacency_both_ways(adjacency, source, target, direction) ==
    LET adj == v2_add_node_adjacency(v2_add_node_adjacency(adjacency, source), target)
        one == [adj EXCEPT ![source] = Append(@, <<target, direction>>)]
    IN  [one EXCEPT ![target] = Append(@, <<source, direction>>)]

\* add_relation, the adjacency it leaves
v2_add_relation_adjacency(adjacency, source, target, direction) ==
    LET adj == v2_add_node_adjacency(v2_add_node_adjacency(adjacency, source), target)
    IN  IF direction = FORWARD
        THEN [adj EXCEPT ![source] = Append(@, <<target, direction>>)]
        ELSE [adj EXCEPT ![target] = Append(@, <<source, direction>>)]

\* determine_relation_type: any(r.source.name == a and r.target.name == b ...)
v2_edge(relations, a, b) ==
    \E r \in Range(relations) : r.source = a /\ r.target = b

\* Mutant: the divergent pattern is tested before the series pattern.
v2_determine_relation_type_divergent_first(relations, x, z, y) ==
    IF v2_edge(relations, z, x) /\ v2_edge(relations, z, y) THEN DIVERGENTE
    ELSE IF v2_edge(relations, x, z) /\ v2_edge(relations, z, y) THEN SERIES
    ELSE IF v2_edge(relations, x, z) /\ v2_edge(relations, y, z) THEN CONVERGENTE
    ELSE None

\* determine_relation_type
v2_determine_relation_type(relations, x, z, y) ==
    LET x_to_z == v2_edge(relations, x, z)
        z_to_x == v2_edge(relations, z, x)
        z_to_y == v2_edge(relations, z, y)
        y_to_z == v2_edge(relations, y, z)
    IN  IF x_to_z /\ z_to_y THEN SERIES
        ELSE IF z_to_x /\ z_to_y THEN DIVERGENTE
        ELSE IF x_to_z /\ y_to_z THEN CONVERGENTE
        ELSE None

\* The value check_triple_flow returns: (allowed, reason).  The reason string is
\* kept by its parts: the pattern it names, its verdict, the node and the state
\* it quotes.  rel_type is the local variable the verdict was computed from.
v2_flow(rel_type, allowed, reason) ==
    [rel_type |-> rel_type, allowed |-> allowed, reason |-> reason]

\* Mutant: a collider is treated like a chain, open while it is unknown.
v2_check_triple_flow_collider_as_chain(nodes, relations, x, z, y) ==
    LET rel_type == v2_determine_relation_type(relations, x, z, y)
        name == IF rel_type = SERIES THEN "Series"
                ELSE IF rel_type = DIVERGENTE THEN "Divergent" ELSE "Convergent"
    IN  IF rel_type = None
        THEN v2_flow(rel_type, FALSE, <<"Unknown relationship pattern">>)
        ELSE IF v2_state_of(nodes, z) = UNKNOWN
        THEN v2_flow(rel_type, TRUE, <<name, "Flow allowed", z, UNKNOWN>>)
        ELSE v2_flow(rel_type, FALSE, <<name, "Blocked", z, KNOWN>>)

\* check_triple_flow
v2_check_triple_flow(nodes, relations, x, z, y) ==
    LET z_state == v2_state_of(nodes, z)
        rel_type == v2_determine_relation_type(relations, x, z, y)
    IN  IF rel_type = SERIES
        THEN IF z_state = UNKNOWN
             THEN v2_flow(rel_type, TRUE, <<"Series", "Flow allowed", z, UNKNOWN>>)
             ELSE v2_flow(rel_type, FALSE, <<"Series", "Blocked", z, KNOWN>>)
        ELSE IF rel_type = DIVERGENTE
        THEN IF z_state = UNKNOWN
             THEN v2_flow(rel_type, TRUE, <<"Divergent", "Flow allowed", z, UNKNOWN>>)
             ELSE v2_flow(rel_type, FALSE, <<"Divergent", "Blocked", z, KNOWN>>)
        ELSE IF rel_type = CONVERGENTE
        THEN IF z_state = KNOWN
             THEN v2_flow(rel_type, TRUE, <<"Convergent", "Flow allowed", z, KNOWN>>)
             ELSE v2_flow(rel_type, FALSE, <<"Convergent", "Blocked", z, UNKNOWN>>)
        ELSE v2_flow(rel_type, FALSE, <<"Unknown relationship pattern">>)

\* get_all_possible_triples: the triples (x, z, y) of pairwise-distinct names in
\* which a relation joins x and z, and one joins z and y, in either orientation
\* (the list is built from a set: its order is not modelled)
v2_get_all_possible_triples(nodes, relations) ==
    {t \in v2_names(nodes) \X v2_names(nodes) \X v2_names(nodes) :
        LET x == t[1]
            z == t[2]
            y == t[3]
            xz == v2_edge(relations, x, z) \/ v2_edge(relations, z, x)
            zy == v2_edge(relations, z, y) \/ v2_edge(relations, y, z)
        IN  x # z /\ y # z /\ y # x /\ xz /\ zy}

\* get_all_paths: the default of max_length
v2_max_length == 100

\* self.adjacency.get(node, [])
v2_adjacency_get(adjacency, node) ==
    IF node \in DOMAIN adjacency THEN adjacency[node] ELSE <<>>

RECURSIVE v2_dfs(_, _, _, _, _, _), v2_dfs_loop(_, _, _, _, _, _, _)
RECURSIVE v2_dfs_loop_closing_short_cycles(_, _, _, _, _, _, _)
RECURSIVE v2_dfs_loop_forgetting_current_node(_, _, _, _, _, _, _)
\* get_all_paths.dfs(node, path, length).  acc = [paths, depth]: paths is the
\* list built so far, depth the largest number of dfs calls active at once.
v2_dfs(adjacency, max_length, node, path, length, acc) ==
    IF length > max_length THEN acc
    ELSE LET path1 == Append(path, node)
             acc1 == [paths |-> IF Len(path1) > 1 THEN Append(acc.paths, path1)
                                ELSE acc.paths,
                      depth |-> IF length + 1 > acc.depth THEN length + 1
                                ELSE acc.depth]
         IN  v2_dfs_loop(adjacency, max_length, path1, length,
                         v2_adjacency_get(adjacency, node), 1, acc1)

\* The loop of dfs closing a cycle from a path of two nodes already
v2_dfs_loop_closing_short_cycles(adjacency, max_length, path, length, neighbors, i, acc) ==
    IF i > Len(neighbors) THEN acc
    ELSE LET neighbor == neighbors[i][1]
         IN  v2_dfs_loop(adjacency, max_length, path, length, neighbors, i + 1,
                IF neighbor \notin Range(path)
                THEN v2_dfs(adjacency, max_length, neighbor, path, length + 1, acc)
                ELSE IF neighbor = path[1] /\ Len(path) >= 2
                THEN [acc EXCEPT !.paths = Append(@, Append(path, neighbor))]
                ELSE acc)

\* The loop of dfs testing the neighbour against the path without its last node
v2_dfs_loop_forgetting_current_node(adjacency, max_length, path, length, neighbors, i, acc) ==
    IF i > Len(neighbors) THEN acc
    ELSE LET neighbor == neighbors[i][1]
         IN  v2_dfs_loop(adjacency, max_length, path, length, neighbors, i + 1,
                IF neighbor \notin Range(SubSeq(path, 1, Len(path) - 1))
                THEN v2_dfs(adjacency, max_length, neighbor, path, length + 1, acc)
                ELSE IF neighbor = path[1] /\ Len(path) >= 3
                THEN [acc EXCEPT !.paths = Append(@, Append(path, neighbor))]
                ELSE acc)

\* get_all_paths.dfs, the loop over the neighbours of the last node of path,
\* from position i
v2_dfs_loop(adjacency, max_length, path, length, neighbors, i, acc) ==
    IF i > Len(neighbors) THEN acc
    ELSE LET neighbor == neighbors[i][1]
         IN  v2_dfs_loop(adjacency, max_length, path, length, neighbors, i + 1,
                IF neighbor \notin Range(path)
                THEN v2_dfs(adjacency, max_length, neighbor, path, length + 1, acc)
                ELSE IF neighbor = path[1] /\ Len(path) >= 3
                THEN [acc EXCEPT !.paths = Append(@, Append(path, neighbor))]
                ELSE acc)

\* get_all_paths(start, max_length): the list returned, with the depth the
\* recursion reached
v2_get_all_paths(adjacency, start, max_length) ==
    v2_dfs(adjacency, max_length, start, <<>>, 0, [paths |-> <<>>, depth |-> 0])

\* The names add_node may be given: a registered one, or the next unused one
v2_usable_names(nodes) ==
    v2_names(nodes) \cup
    (IF Len(nodes) < Len(NamesV2) THEN {NamesV2[Len(nodes) + 1]} ELSE {})

\* BayesianNetwork.add_node(name, state)
V2AddNode(name, state) ==
    /\ name \in v2_usable_names(v2_nodes)
    /\ v2_nodes' = v2_add_node(v2_nodes, name, state)
    /\ v2_adjacency' = v2_add_node_adjacency(v2_adjacency, name)
    /\ v2_result' = NoResult
    /\ UNCHANGED <<v2_relations, bc_vars, tp_vars>>

\* BayesianNetwork.add_relation(source, target, direction, source_state,
\*                              target_state)
V2AddRelation(source, target, direction, source_state, target_state) ==
    /\ Len(v2_relations) < MaxRelationsV2
    /\ source \in v2_usable_names(v2_nodes)
    /\ target \in v2_usable_names(v2_add_node(v2_nodes, source, source_state))
    /\ v2_nodes' = v2_add_relation_nodes(v2_nodes, source, target,
                                         source_state, target_state)
    /\ v2_relations' = v2_add_relation_relations(v2_relations, source, target,
                                                 direction)
    /\ v2_adjacency' = v2_add_relation_adjacency(v2_adjacency, source, target,
                                                 direction)
    /\ v2_result' = NoResult
    /\ UNCHANGED <<bc_vars, tp_vars>>

\* BayesianNetwork.add_relation(source, target, direction): source_state and
\* target_state take their default, NodeState.UNKNOWN
V2AddRelationWithoutStates(source, target, direction) ==
    /\ Len(v2_relations) < MaxRelationsV2
    /\ source \in v2_usable_names(v2_nodes)
    /\ target \in v2_usable_names(v2_add_node(v2_nodes, source, UNKNOWN))
    /\ v2_nodes' = v2_add_relation_nodes(v2_nodes, source, target, UNKNOWN, UNKNOWN)
    /\ v2_relations' = v2_add_relation_relations(v2_relations, source, target,
                                                 direction)
    /\ v2_adjacency' = v2_add_relation_adjacency(v2_adjacency, source, target,
                                                 direction)
    /\ v2_result' = [call |-> "add_relation", states |-> "default"]
    /\ UNCHANGED <<bc_vars, tp_vars>>

\* BayesianNetwork.check_triple_flow(x, z, y) on three distinct registered names
V2CheckTripleFlow(x, z, y) ==
    /\ {x, z, y} \subseteq v2_names(v2_nodes)
    /\ x # z /\ z # y /\ x # y
    /\ v2_result' = [call |-> "check_triple_flow", x |-> x, z |-> z, y |-> y,
                     value |-> v2_check_triple_flow(v2_nodes, v2_relations, x, z, y)]
    /\ UNCHANGED <<v2_nodes, v2_relations, v2_adjacency, bc_vars, tp_vars>>

\* BayesianNetwork.get_all_paths(start) on a registered name, as show_all_paths
\* calls it
V2GetAllPaths(start) ==
    /\ start \in v2_names(v2_nodes)
    /\ v2_result' = [call |-> "get_all_paths", start |-> start,
                     value |-> v2_get_all_paths(v2_adjacency, start, v2_max_length)]
    /\ UNCHANGED <<v2_nodes, v2_relations, v2_adjacency, bc_vars, tp_vars>>

(***************************************************************************)
(* The two BayesianNetwork classes given the same calls                    *)
(* Each action gives one call, with the same arguments, to the network of  *)
(* Bayesian_Causality.py and to the network of v2.py.  bc_result keeps the  *)
(* arguments of that call.                                                 *)
(***************************************************************************)

\* The longest relation list when the two networks are built together.
MaxRelationsBoth == 2

\* add_node(name, state) on both networks
BothAddNode(name, state) ==
    /\ name \in bc_usable_names(bc_nodes)
    /\ bc_nodes' = bc_add_node(bc_nodes, name, state)
    /\ v2_nodes' = v2_add_node(v2_nodes, name, state)
    /\ v2_adjacency' = v2_add_node_adjacency(v2_adjacency, name)
    /\ bc_result' = [call |-> "add_node", name |-> name, state |-> state]
    /\ UNCHANGED <<bc_relations, v2_relations, v2_result, tp_vars>>

\* add_relation(source, target, direction, source_state, target_state) on both
\* networks
BothAddRelation(source, target, direction, source_state, target_state) ==
    /\ Len(bc_relations) < MaxRelationsBoth
    /\ source \in bc_usable_names(bc_nodes)
    /\ target \in bc_usable_names(bc_add_node(bc_nodes, source, source_state))
    /\ bc_nodes' = bc_add_relation_nodes(bc_nodes, source, target,
                                         source_state, target_state)
    /\ bc_relations' = bc_add_relation_relations(bc_relations, source, target,
                                                 direction)
    /\ v2_nodes' = v2_add_relation_nodes(v2_nodes, source, target,
                                         source_state, target_state)
    /\ v2_relations' = v2_add_relation_relations(v2_relations, source, target,
                                                 direction)
    /\ v2_adjacency' = v2_add_relation_adjacency(v2_adjacency, source, target,
                                                 direction)
    /\ bc_result' = [call |-> "add_relation", source |-> source, target |-> target,
                     source_state |-> source_state, target_state |-> target_state]
    /\ UNCHANGED <<v2_result, tp_vars>>

(***************************************************************************)
(* tp.py : ModernBayesianNetworkApp                                        *)
(* variables is the list of names, relations the list of (cause, effet)    *)
(* pairs, etats the dict name -> "connu" / "inconnu".                      *)
(***************************************************************************)

CONNU == "connu"
INCONNU == "inconnu"
Etats == {CONNU, INCONNU}

\* etats.get(b, "inconnu")
tp_etat(etats, b) == IF b \in DOMAIN etats THEN etats[b] ELSE INCONNU

\* (a, b) in self.relations
tp_in_relations(relations, a, b) == <<a, b>> \in Range(relations)

\* The texts the variable entry may hold: a name, nothing, blanks, or a name
\* with a blank before or after it
TpEntries ==
    Range(NamesTP) \cup {"", " "}
    \cup {" " \o n : n \in Range(NamesTP)} \cup {n \o " " : n \in Range(NamesTP)}

\* self.var_entry.get().strip(), on the texts of TpEntries
tp_strip(entry) ==
    IF entry = " " THEN ""
    ELSE IF \E n \in Range(NamesTPLong) : entry \in {" " \o n, n \o " "}
    THEN CHOOSE n \in Range(NamesTPLong) : entry \in {" " \o n, n \o " "}
    ELSE entry

\* The test accepting any name that is not declared yet
tp_variable_accepted_unless_declared(variables, nom) ==
    nom \notin Range(variables)

\* ajouter_variable, the test that accepts the name
tp_variable_accepted(variables, nom) ==
    nom # "" /\ nom \notin Range(variables)

\* ajouter_relation, the test that accepts the pair (a pair already present is
\* neither added nor reported)
tp_relation_accepted(variables, cause, effet) ==
    cause \in Range(variables) /\ effet \in Range(variables) /\ cause # effet

\* G.to_undirected(): the names adjacent to a, whatever the orientation
tp_adjacent(relations, a) ==
    {r[2] : r \in {q \in Range(relations) : q[1] = a}}
    \cup {r[1] : r \in {q \in Range(relations) : q[2] = a}}

\* nx.all_simple_paths(G.to_undirected(), start_node, target) over every target
\* other than start_node: the simple paths of two or more names that leave
\* start_node (each ends at its target).  The order in which networkx yields
\* them is not modelled: the paths are kept as a set.
tp_all_simple_paths(variables, relations, start_node) ==
    LET n == Len(variables)
        Extend(P) == {Append(p, v) : <<p, v>> \in
                         {q \in P \X Range(variables) :
                             /\ q[2] \notin Range(q[1])
                             /\ q[2] \in tp_adjacent(relations, q[1][Len(q[1])])}}
        Level[k \in 1..n] == IF k = 1 THEN {<<start_node>>} ELSE Extend(Level[k - 1])
    IN  UNION {Level[k] : k \in 2..n}

\* circulation_information, the verdict of the if / elif chain on the triple
\* (a, b, c): "passe", "bloque" (the pattern is recognised and b stops the
\* flow) or "aucun" (no pattern is recognised)
tp_triple_verdict(relations, etats, a, b, c) ==
    LET etat_b == tp_etat(etats, b) IN
    IF tp_in_relations(relations, a, b) /\ tp_in_relations(relations, b, c)
    THEN IF etat_b = CONNU THEN "bloque" ELSE "passe"
    ELSE IF tp_in_relations(relations, b, a) /\ tp_in_relations(relations, b, c)
    THEN IF etat_b = CONNU THEN "bloque" ELSE "passe"
    ELSE IF tp_in_relations(relations, a, b) /\ tp_in_relations(relations, c, b)
    THEN IF etat_b # CONNU THEN "bloque" ELSE "passe"
    ELSE "aucun"

\* The first loop letting an unrecognised triple pass
tp_passe_skipping_unrecognised(relations, etats, path) ==
    \A i \in 1..(Len(path) - 2) :
        tp_triple_verdict(relations, etats, path[i], path[i + 1], path[i + 2]) # "bloque"

\* circulation_information, first loop: passe, true when no triple of the path
\* blocks or is unrecognised
tp_passe(relations, etats, path) ==
    \A i \in 1..(Len(path) - 2) :
        tp_triple_verdict(relations, etats, path[i], path[i + 1], path[i + 2]) = "passe"

\* circulation_information: chemins_valides, as a set
tp_chemins_valides(variables, relations, etats, start_node) ==
    {path \in tp_all_simple_paths(variables, relations, start_node) :
        tp_passe(relations, etats, path)}

RECURSIVE tp_chemin_final_from(_, _, _, _, _)
\* circulation_information, second loop, from position i (1-based; i pairs
\* path[i] with path[i + 1]): chemin_final of one valid path
tp_chemin_final_from(variables, relations, etats, path, i) ==
    IF i > Len(path) - 1 THEN path
    ELSE LET current_node == path[i]
             next_node == path[i + 1]
             blocked == /\ i < Len(path) - 1
                        /\ tp_triple_verdict(relations, etats, path[i], path[i + 1],
                                             path[i + 2]) = "bloque"
             outgoing_relations == {r \in Range(relations) : r[1] = next_node}
             forms_triplet == \E c \in Range(variables) :
                                 tp_in_relations(relations, next_node, c)
                                 /\ c # current_node
         IN  IF blocked THEN SubSeq(path, 1, i + 1)
             ELSE IF outgoing_relations = {} THEN SubSeq(path, 1, i + 1)
             ELSE IF ~forms_triplet THEN SubSeq(path, 1, i + 1)
             ELSE tp_chemin_final_from(variables, relations, etats, path, i + 1)

\* circulation_information: chemins_finaux, the list without repetition, as a set
tp_chemins_finaux(variables, relations, etats, start_node) ==
    {tp_chemin_final_from(variables, relations, etats, path, 1) :
        path \in tp_chemins_valides(variables, relations, etats, start_node)}

\* has_cycle: whether nx.find_cycle finds a directed cycle
tp_has_cycle(variables, relations) ==
    LET Step(R) == R \cup {<<q[1][1], q[2][2]>> :
                              q \in {w \in R \X Range(relations) : w[1][2] = w[2][1]}}
        Closure[k \in 0..Len(variables)] ==
            IF k = 0 THEN Range(relations) ELSE Step(Closure[k - 1])
    IN  \E v \in Range(variables) : <<v, v>> \in Closure[Len(variables)]

\* justifier_chemin, the justification of the triple (a, b, c): the text
\* "triple [a, b, c] : structure (...) -> raison", by its parts; <<>> when no
\* pattern is recognised (nothing is appended)
tp_justification(relations, etats, a, b, c) ==
    LET etat_b == tp_etat(etats, b)
        line(structure, raison) ==
            <<[triple |-> <<a, b, c>>, structure |-> structure, raison |-> raison]>>
    IN  IF tp_in_relations(relations, a, b) /\ tp_in_relations(relations, b, c)
        THEN IF etat_b = CONNU
             THEN line("série", <<"bloqué car", b, "est connu">>)
             ELSE line("série", <<"l'information passe car", b, "est inconnu">>)
        ELSE IF tp_in_relations(relations, b, a) /\ tp_in_relations(relations, b, c)
        THEN IF etat_b = CONNU
             THEN line("divergence", <<"bloITIqué car", b, "est connu">>)
             ELSE line("divergence", <<"l'information passe car", b, "est inconnu">>)
        ELSE IF tp_in_relations(relations, a, b) /\ tp_in_relations(relations, c, b)
        THEN IF etat_b # CONNU
             THEN line("convergence", <<"bloqué car", b, "est inconnu">>)
             ELSE line("convergence", <<"l'information passe car", b, "est connu">>)
        ELSE <<>>

\* justifier_chemin(chemin): the list of justifications, one per recognised
\* triple, in the order of the path
tp_justifier_chemin(relations, etats, chemin) ==
    LET J[i \in 0..(IF Len(chemin) >= 2 THEN Len(chemin) - 2 ELSE 0)] ==
            IF i = 0 THEN <<>>
            ELSE J[i - 1] \o tp_justification(relations, etats, chemin[i],
                                              chemin[i + 1], chemin[i + 2])
    IN  J[IF Len(chemin) >= 2 THEN Len(chemin) - 2 ELSE 0]

\* What circulation_information shows, by its parts:
\*   kind "info"   : fewer than three variables, nothing is computed
\*   kind "cycle"  : has_cycle found a cycle, nothing else is computed
\*   kind "aucun"  : "Aucun chemin valide trouve."
\*   kind "chemins": the paths of chemins_finaux, each followed by the lines of
\*                   justifier_chemin (justifications pairs a path with them)
tp_shown(kind, start_node, chemins, justifications) ==
    [call |-> "circulation_information", kind |-> kind,
     start_node |-> start_node, chemins |-> chemins,
     justifications |-> justifications]

\* circulation_information with start_node selected
tp_circulation_information(variables, relations, etats, start_node) ==
    IF Len(variables) < 3 THEN tp_shown("info", "", {}, {})
    ELSE IF tp_has_cycle(variables, relations)
    THEN tp_shown("cycle", start_node, {}, {})
    ELSE IF tp_chemins_valides(variables, relations, etats, start_node) = {}
    THEN tp_shown("aucun", start_node, {}, {})
    ELSE LET chemins == tp_chemins_finaux(variables, relations, etats, start_node)
         IN  tp_shown("chemins", start_node, chemins,
                      {<<chemin, tp_justifier_chemin(relations, etats, chemin)>> :
                          chemin \in chemins})

\* itertools.combinations(range(1, n + 1), 3): the index triples i < j < k in
\* lexicographic order
tp_combinations(n) ==
    LET S == {t \in (1..n) \X (1..n) \X (1..n) : t[1] < t[2] /\ t[2] < t[3]}
        key(t) == (t[1] * (n + 1) + t[2]) * (n + 1) + t[3]
        F[m \in 0..Cardinality(S)] ==
            IF m = 0 THEN <<>>
            ELSE LET rest == S \ Range(F[m - 1])
                 IN  Append(F[m - 1],
                            CHOOSE t \in rest : \A u \in rest : key(t) <= key(u))
    IN  F[Cardinality(S)]

\* detecter_relations_triplet, the result appended for the triplet (a, b, c):
\* "[Serie] a -> b -> c", "[Divergente] a <- b -> c", "[Convergente] a -> b <- c",
\* or nothing
tp_resultat(relations, a, b, c) ==
    IF tp_in_relations(relations, a, b) /\ tp_in_relations(relations, b, c)
    THEN <<[type |-> "Serie", a |-> a, b |-> b, c |-> c]>>
    ELSE IF tp_in_relations(relations, b, a) /\ tp_in_relations(relations, b, c)
    THEN <<[type |-> "Divergente", a |-> a, b |-> b, c |-> c]>>
    ELSE IF tp_in_relations(relations, a, b) /\ tp_in_relations(relations, c, b)
    THEN <<[type |-> "Convergente", a |-> a, b |-> b, c |-> c]>>
    ELSE <<>>

\* detecter_relations_triplet: resultats
tp_resultats(variables, relations) ==
    LET combinations == tp_combinations(Len(variables))
        F[m \in 0..Len(combinations)] ==
            IF m = 0 THEN <<>>
            ELSE F[m - 1] \o tp_resultat(relations,
                                         variables[combinations[m][1]],
                                         variables[combinations[m][2]],
                                         variables[combinations[m][3]])
    IN  F[Len(combinations)]

\* detecter_relations_triplet: kind "info" with fewer than three variables
\* (nothing is computed), else kind "triplets" with the lines shown
tp_detecter_relations_triplet(variables, relations) ==
    IF Len(variables) < 3
    THEN [call |-> "detecter_relations_triplet", kind |-> "info", resultats |-> <<>>]
    ELSE [call |-> "detecter_relations_triplet", kind |-> "triplets",
          resultats |-> tp_resultats(variables, relations)]

\* The names the entry may hold: a declared one, the next unused one, or nothing
tp_usable_names(variables) ==
    Range(variables) \cup {""} \cup
    (IF Len(variables) < Len(NamesTP) THEN {NamesTP[Len(variables) + 1]} ELSE {})

\* ModernBayesianNetworkApp.ajouter_variable with the text entry in the entry
\* and etat in the state box
TpAjouterVariable(entry, etat) ==
    LET nom == tp_strip(entry) IN
    /\ nom \in tp_usable_names(tp_variables)
    /\ IF tp_variable_accepted(tp_variables, nom)
       THEN /\ tp_variables' = Append(tp_variables, nom)
            /\ tp_etats' = [v \in DOMAIN tp_etats \cup {nom} |->
                               IF v = nom THEN etat ELSE tp_etats[v]]
       ELSE UNCHANGED <<tp_variables, tp_etats>>
    /\ tp_result' = NoResult
    /\ UNCHANGED <<tp_relations, bc_vars, v2_vars>>

\* ajouter_variable, with the names of NamesTPLong in the entry
TpAjouterVariableLong(entry, etat) ==
    LET nom == tp_strip(entry) IN
    /\ nom \in Range(tp_variables) \cup {""} \cup
               (IF Len(tp_variables) < Len(NamesTPLong)
                THEN {NamesTPLong[Len(tp_variables) + 1]} ELSE {})
    /\ IF tp_variable_accepted(tp_variables, nom)
       THEN /\ tp_variables' = Append(tp_variables, nom)
            /\ tp_etats' = [v \in DOMAIN tp_etats \cup {nom} |->
                               IF v = nom THEN etat ELSE tp_etats[v]]
       ELSE UNCHANGED <<tp_variables, tp_etats>>
    /\ tp_result' = NoResult
    /\ UNCHANGED <<tp_relations, bc_vars, v2_vars>>

\* ModernBayesianNetworkApp.ajouter_relation with cause and effet in the boxes
TpAjouterRelation(cause, effet) ==
    /\ IF /\ tp_relation_accepted(tp_variables, cause, effet)
          /\ ~tp_in_relations(tp_relations, cause, effet)
       THEN /\ Len(tp_relations) < MaxRelationsTP
            /\ tp_relations' = Append(tp_relations, <<cause, effet>>)
       ELSE UNCHANGED tp_relations
    /\ tp_result' = NoResult
    /\ UNCHANGED <<tp_variables, tp_etats, bc_vars, v2_vars>>

\* Mutant: circulation_information records the start node as observed.
TpCirculationInformation_marking_start(start_node) ==
    /\ start_node \in Range(tp_variables)
    /\ tp_result' = tp_circulation_information(tp_variables, tp_relations,
                                               tp_etats, start_node)
    /\ tp_etats' = [tp_etats EXCEPT ![start_node] = CONNU]
    /\ UNCHANGED <<tp_variables, tp_relations, bc_vars, v2_vars>>

\* ModernBayesianNetworkApp.circulation_information with start_node selected in
\* the start box (a declared variable)
TpCirculationInformation(start_node) ==
    /\ start_node \in Range(tp_variables)
    /\ tp_result' = tp_circulation_information(tp_variables, tp_relations,
                                               tp_etats, start_node)
    /\ UNCHANGED <<tp_variables, tp_relations, tp_etats, bc_vars, v2_vars>>

\* ModernBayesianNetworkApp.justifier_chemin(chemin) called again on a path that
\* circulation_information has just shown; shown keeps what was shown
TpJustifierChemin(chemin) ==
    /\ tp_result.call = "circulation_information"
    /\ chemin \in tp_result.chemins
    /\ tp_result' = [call |-> "justifier_chemin", kind |-> "justifications",
                     chemin |-> chemin,
                     value |-> tp_justifier_chemin(tp_relations, tp_etats, chemin),
                     shown |-> tp_result]
    /\ UNCHANGED <<tp_variables, tp_relations, tp_etats, bc_vars, v2_vars>>

\* ModernBayesianNetworkApp.detecter_relations_triplet
TpDetecterRelationsTriplet ==
    /\ tp_result' = tp_detecter_relations_triplet(tp_variables, tp_relations)
    /\ UNCHANGED <<tp_variables, tp_relations, tp_etats, bc_vars, v2_vars>>

Init ==
    /\ bc_nodes = <<>>
    /\ bc_relations = <<>>
    /\ bc_result = NoResult
    /\ v2_nodes = <<>>
    /\ v2_relations = <<>>
    /\ v2_adjacency = <<>>
    /\ v2_result = NoResult
    /\ tp_variables = <<>>
    /\ tp_relations = <<>>
    /\ tp_etats = <<>>
    /\ tp_result = NoResult

NextBC ==
    \/ \E name \in Range(NamesBC), state \in NodeState : BcAddNode(name, state)
    \/ \E source_name \in Range(NamesBC), target_name \in Range(NamesBC),
          direction \in Direction, source_state \in NodeState,
          target_state \in NodeState :
            BcAddRelation(source_name, target_name, direction,
                          source_state, target_state)
    \/ BcComputeFinalPath

SpecBC == Init /\ [][NextBC]_vars

NextBCChain ==
    \/ \E source_state \in NodeState, target_state \in NodeState :
          BcChainAppend(source_state, target_state)
    \/ \E source_state \in NodeState, target_state \in NodeState :
          BcChainPrepend(source_state, target_state)
    \/ BcComputeFinalPath

SpecBCChain == Init /\ [][NextBCChain]_vars

NextV2 ==
    \/ \E name \in Range(NamesV2), state \in NodeState : V2AddNode(name, state)
    \/ \E source \in Range(NamesV2), target \in Range(NamesV2),
          direction \in Direction, source_state \in NodeState,
          target_state \in NodeState :
            V2AddRelation(source, target, direction, source_state, target_state)
    \/ \E x \in Range(NamesV2), z \in Range(NamesV2), y \in Range(NamesV2) :
          V2CheckTripleFlow(x, z, y)

SpecV2 == Init /\ [][NextV2]_vars

NextV2Paths ==
    \/ \E name \in Range(NamesV2), state \in NodeState : V2AddNode(name, state)
    \/ \E source \in Range(NamesV2), target \in Range(NamesV2),
          direction \in Direction, source_state \in NodeState,
          target_state \in NodeState :
            V2AddRelation(source, target, direction, source_state, target_state)
    \/ \E source \in Range(NamesV2), target \in Range(NamesV2),
          direction \in Direction :
            V2AddRelationWithoutStates(source, target, direction)
    \/ \E start \in Range(NamesV2) : V2GetAllPaths(start)

SpecV2Paths == Init /\ [][NextV2Paths]_vars

NextTP ==
    \/ \E entry \in TpEntries, etat \in Etats : TpAjouterVariable(entry, etat)
    \/ \E cause \in Range(NamesTP) \cup {""}, effet \in Range(NamesTP) \cup {""} :
          TpAjouterRelation(cause, effet)
    \/ \E start_node \in Range(NamesTP) : TpCirculationInformation(start_node)
    \/ \E chemin \in UNION {[1..k -> Range(NamesTP)] : k \in 2..Len(NamesTP)} :
          TpJustifierChemin(chemin)
    \/ TpDetecterRelationsTriplet

SpecTP == Init /\ [][NextTP]_vars

\* tp.py with four names: declarations, relations and circulation_information
\* (which calls justifier_chemin on every path it shows)
NextTPLong ==
    \/ \E entry \in Range(NamesTPLong) \cup {"", " "}, etat \in Etats :
          TpAjouterVariableLong(entry, etat)
    \/ \E cause \in Range(NamesTPLong), effet \in Range(NamesTPLong) :
          TpAjouterRelation(cause, effet)
    \/ \E start_node \in Range(NamesTPLong) : TpCirculationInformation(start_node)

SpecTPLong == Init /\ [][NextTPLong]_vars

NextBoth ==
    \/ \E name \in Range(NamesBC), state \in NodeState : BothAddNode(name, state)
    \/ \E source \in Range(NamesBC), target \in Range(NamesBC),
          direction \in Direction, source_state \in NodeState,
          target_state \in NodeState :
            BothAddRelation(source, target, direction, source_state, target_state)

SpecBoth == Init /\ [][NextBoth]_vars

(***************************************************************************)
(* Properties of Bayesian_Causality.py                                     *)
(***************************************************************************)

\* The directed graph a relation list stands for, as compute_final_path reads it
\* when it computes first_nodes: FORWARD (s, t) is s -> t, BACKWARD (s, t) is t -> s
BcEdges(relations) ==
    {IF r.direction = FORWARD THEN <<r.source, r.target>>
     ELSE <<r.target, r.source>> : r \in Range(relations)}

\* The pairs <<a, b>> such that edges holds a directed walk of one edge or more
\* from a to b
Reachability(names, edges) ==
    LET R[k \in 0..Cardinality(names)] ==
            IF k = 0 THEN edges
            ELSE R[k - 1] \cup
                 {<<pair[1][1], pair[2][2]>> :
                     pair \in {q \in R[k - 1] \X edges : q[1][2] = q[2][1]}}
    IN  R[Cardinality(names)]

HasDirectedCycle(names, edges) ==
    \E n \in names : <<n, n>> \in Reachability(names, edges)

\* C3: after any sequence of add_relation calls, has_cycle returns a non-empty
\* list if the directed graph of the relations (either direction tag) holds a
\* directed cycle, and the empty list if it holds none.
C3_HasCycleSoundAndComplete ==
    (bc_has_cycle(bc_nodes, bc_relations) # <<>>)
        <=> HasDirectedCycle(bc_names(bc_nodes), BcEdges(bc_relations))

\* s is t rotated: both are closed walks c[1] .. c[n] = c[1] over the same cycle
IsRotationOfCycle(s, t) ==
    /\ Len(s) = Len(t)
    /\ Len(s) >= 2
    /\ \E k \in 0..(Len(s) - 2) :
          \A i \in 1..Len(s) :
              s[i] = t[((i - 1 + k) % (Len(s) - 1)) + 1]

\* C4: a non-empty list returned by has_cycle starts and ends with the same
\* name and its interior names are pairwise distinct; for A->B, B->C, C->A added
\* in that order it is [A, B, C, A] up to rotation.
C4_CycleIsClosedAndSimple ==
    LET cycle == bc_has_cycle(bc_nodes, bc_relations) IN
    /\ cycle # <<>> =>
          /\ cycle[1] = cycle[Len(cycle)]
          /\ \A i, j \in 2..(Len(cycle) - 1) : i # j => cycle[i] # cycle[j]
    /\ bc_relations = <<[source |-> "A", target |-> "B", direction |-> FORWARD],
                        [source |-> "B", target |-> "C", direction |-> FORWARD],
                        [source |-> "C", target |-> "A", direction |-> FORWARD]>>
          => IsRotationOfCycle(cycle, <<"A", "B", "C", "A">>)

\* C5: when has_cycle returns a non-empty list for a graph with at least one
\* relation, compute_final_path returns the cycle report alone: it evaluates no
\* triplet and its result holds no path and no justification.
C5_CycleReportOnly ==
    (/\ bc_result # NoResult
     /\ Len(bc_relations) >= 1
     /\ bc_has_cycle(bc_nodes, bc_relations) # <<>>)
    => bc_result = bc_result_of("cycle", bc_has_cycle(bc_nodes, bc_relations),
                                <<>>, <<>>, <<"has_cycle">>, <<>>)

\* C5 witness: compute_final_path has returned a cycle report for a cyclic graph
C5_Witness ==
    /\ bc_result # NoResult
    /\ bc_result.kind = "cycle"
    /\ Len(bc_relations) >= 2
    /\ bc_has_cycle(bc_nodes, bc_relations) # <<>>

\* C6: with zero relations compute_final_path returns the insufficient-data
\* result, as a value, before it runs cycle detection or evaluates any triplet,
\* whatever nodes are registered.
C6_NoRelationIsInsufficientData ==
    (bc_result # NoResult /\ Len(bc_relations) = 0)
    => bc_result = bc_result_of("error", <<>>, <<>>, <<>>, <<>>, <<>>)

\* C6 witness: the insufficient-data result returned for a graph with registered
\* nodes and no relation
C6_Witness ==
    /\ bc_result # NoResult
    /\ bc_result.kind = "error"
    /\ Len(bc_nodes) >= 2
    /\ Len(bc_relations) = 0

\* The names of a forward chain, from its near end to its far end
RECURSIVE BcChainFrom(_, _)
BcChainFrom(relations, name) ==
    IF \E r \in Range(relations) : r.source = name
    THEN <<name>> \o BcChainFrom(relations,
                         (CHOOSE r \in Range(relations) : r.source = name).target)
    ELSE <<name>>

BcChainNames(relations) ==
    BcChainFrom(relations, relations[BcChainFirst(relations)].source)

\* The node sequences of the paths a result reports
BcReportedNodeSequences(result) ==
    {bc_path_nodes(result.paths[i]) : i \in 1..Len(result.paths)}

\* C7: for a single forward chain n1 -> ... -> nk, k >= 3, of UNKNOWN nodes,
\* compute_final_path reports a path that visits n1, ..., nk in order.
C7_WholeChainReported ==
    (/\ bc_result # NoResult
     /\ Len(bc_relations) >= 2
     /\ \A n \in Range(bc_nodes) : n.state = UNKNOWN)
    => /\ bc_result.kind = "paths"
       /\ \E p \in BcReportedNodeSequences(bc_result) :
             IsSubsequence(BcChainNames(bc_relations), p)

\* The simple directed paths of three or more names that leave a source node
\* (a node no edge enters)
BcSourcePaths(nodes, relations) ==
    LET names == bc_names(nodes)
        edges == BcEdges(relations)
        sources == {n \in names : \A e \in edges : e[2] # n}
    IN  {p \in UNION {[1..k -> names] : k \in 3..Cardinality(names)} :
            /\ p[1] \in sources
            /\ \A i, j \in 1..Len(p) : i # j => p[i] # p[j]
            /\ \A i \in 1..(Len(p) - 1) : <<p[i], p[i + 1]>> \in edges}

\* Along a directed path every triple is a series: it blocks when its middle
\* node is KNOWN.  The position of the first blocking triple, 0 for none.
BcFirstBlock(nodes, p) ==
    LET blocked == {i \in 1..(Len(p) - 2) : bc_state_of(nodes, p[i + 1]) = KNOWN}
    IN  IF blocked = {} THEN 0
        ELSE CHOOSE i \in blocked : \A j \in blocked : i <= j

\* C8: for a directed path p from a source node whose first blocking triple is
\* (p[i], p[i+1], p[i+2]), compute_final_path reports the truncated path
\* p[0..i+1]; for X(unknown) -> Z(known) -> Y(unknown) it reports X -> Z.
C8_TruncatedAtFirstBlock ==
    (bc_result # NoResult /\ bc_result.kind = "paths")
    => \A p \in BcSourcePaths(bc_nodes, bc_relations) :
          LET i == BcFirstBlock(bc_nodes, p) IN
          i # 0 => SubSeq(p, 1, i + 1) \in BcReportedNodeSequences(bc_result)

\* C13: adding a relation that duplicates an existing (source, target, FORWARD)
\* relation leaves the set of triplets returned by find_all_triplets unchanged.
C13_ParallelEdgeAddsNoTriplet ==
    [][(/\ Len(bc_relations') = Len(bc_relations) + 1
        /\ SubSeq(bc_relations', 1, Len(bc_relations)) = bc_relations
        /\ bc_relations'[Len(bc_relations')].direction = FORWARD
        /\ bc_relations'[Len(bc_relations')] \in Range(bc_relations))
       => Range(bc_find_all_triplets(bc_nodes', bc_relations'))
              = Range(bc_find_all_triplets(bc_nodes, bc_relations))]_vars

\* What the value of compute_final_path says: its kind, cycle, paths and
\* justifications
BcReturned(result) ==
    <<result.kind, result.cycle, result.paths, result.justifications>>

\* C14: adding a self-loop (n, n) on a registered node n to a graph with at
\* least one relation raises no error and is inert: compute_final_path returns
\* the same result as before the self-loop was added.
C14_SelfLoopIsInert ==
    [][(/\ Len(bc_relations) >= 1
        /\ Len(bc_relations') = Len(bc_relations) + 1
        /\ SubSeq(bc_relations', 1, Len(bc_relations)) = bc_relations
        /\ bc_relations'[Len(bc_relations')].source
              = bc_relations'[Len(bc_relations')].target
        /\ bc_relations'[Len(bc_relations')].source \in bc_names(bc_nodes))
       => /\ bc_compute_final_path(bc_nodes', bc_relations').kind # "RecursionError"
          /\ BcReturned(bc_compute_final_path(bc_nodes', bc_relations'))
                = BcReturned(bc_compute_final_path(bc_nodes, bc_relations))]_vars

\* C16: on every graph with at least one relation on which has_cycle returns
\* the empty list, compute_final_path returns a result value: the build_path
\* recursion ends and never aborts with a recursion fault.
C16_BuildPathTerminates ==
    (/\ bc_result # NoResult
     /\ Len(bc_relations) >= 1
     /\ bc_has_cycle(bc_nodes, bc_relations) = <<>>)
    => bc_result.kind = "paths"

\* relations with the direction tags of tags, everything else kept
WithDirectionTags(relations, tags) ==
    [i \in 1..Len(relations) |->
        [source |-> relations[i].source, target |-> relations[i].target,
         direction |-> tags[i]]]

\* C18: the direction tag has no effect on analysis: two graphs built by the
\* same add_relation calls that differ only in the direction tags have the same
\* has_cycle result and the same find_all_triplets result.
C18_DirectionTagHasNoEffect ==
    \A tags \in [1..Len(bc_relations) -> Direction] :
        /\ bc_has_cycle(bc_nodes, WithDirectionTags(bc_relations, tags))
              = bc_has_cycle(bc_nodes, bc_relations)
        /\ bc_find_all_triplets(bc_nodes, WithDirectionTags(bc_relations, tags))
              = bc_find_all_triplets(bc_nodes, bc_relations)

(***************************************************************************)
(* Properties of v2.py                                                     *)
(***************************************************************************)

\* The single-triple rule: a chain or a fork passes while its middle node is
\* UNKNOWN, a collider passes while its middle node is KNOWN
FlowRule(type, z_state) ==
    \/ type \in {SERIES, DIVERGENTE} /\ z_state = UNKNOWN
    \/ type = CONVERGENTE /\ z_state = KNOWN

\* C1: for three pairwise-distinct registered nodes x, z, y that
\* determine_relation_type classifies, check_triple_flow(x, z, y) returns
\* allowed = TRUE exactly when the type is SERIES or DIVERGENTE and z is UNKNOWN,
\* or the type is CONVERGENTE and z is KNOWN; when the classification is None it
\* returns allowed = FALSE.
C1_FlowFollowsTheTripleRule ==
    v2_result # NoResult =>
        LET type == v2_determine_relation_type(v2_relations, v2_result.x,
                                               v2_result.z, v2_result.y)
        IN  /\ type # None =>
                (v2_result.value.allowed
                    <=> FlowRule(type, v2_state_of(v2_nodes, v2_result.z)))
            /\ type = None => ~v2_result.value.allowed

\* C1 witness: check_triple_flow has allowed flow through a KNOWN collider
C1_Witness ==
    /\ v2_result # NoResult
    /\ v2_determine_relation_type(v2_relations, v2_result.x, v2_result.z,
                                  v2_result.y) = CONVERGENTE
    /\ v2_state_of(v2_nodes, v2_result.z) = KNOWN
    /\ v2_result.value.allowed

\* Some relation has source a and target b (the edge a -> b as the relation
\* list records it)
V2RelationFromTo(a, b) ==
    \E i \in 1..Len(v2_relations) :
        v2_relations[i].source = a /\ v2_relations[i].target = b

\* C2: determine_relation_type(x, z, y) applies a fixed priority over every edge
\* set among the three nodes: SERIES whenever x->z and z->y exist, even if
\* another pattern matches too; otherwise DIVERGENTE whenever z->x and z->y
\* exist; otherwise CONVERGENTE whenever x->z and y->z exist; otherwise None.
C2_ClassificationPriority ==
    v2_result # NoResult =>
        LET x == v2_result.x
            z == v2_result.z
            y == v2_result.y
            type == v2_result.value.rel_type
        IN  /\ (V2RelationFromTo(x, z) /\ V2RelationFromTo(z, y)) => type = SERIES
            /\ (/\ ~(V2RelationFromTo(x, z) /\ V2RelationFromTo(z, y))
                /\ V2RelationFromTo(z, x) /\ V2RelationFromTo(z, y))
               => type = DIVERGENTE
            /\ (/\ ~(V2RelationFromTo(x, z) /\ V2RelationFromTo(z, y))
                /\ ~(V2RelationFromTo(z, x) /\ V2RelationFromTo(z, y))
                /\ V2RelationFromTo(x, z) /\ V2RelationFromTo(y, z))
               => type = CONVERGENTE
            /\ (/\ ~(V2RelationFromTo(x, z) /\ V2RelationFromTo(z, y))
                /\ ~(V2RelationFromTo(z, x) /\ V2RelationFromTo(z, y))
                /\ ~(V2RelationFromTo(x, z) /\ V2RelationFromTo(y, z)))
               => type = None

\* C2 witness: a triple classified SERIES whose edges match the divergent
\* pattern as well
C2_Witness ==
    /\ v2_result # NoResult
    /\ v2_result.value.rel_type = SERIES
    /\ V2RelationFromTo(v2_result.z, v2_result.x)
    /\ V2RelationFromTo(v2_result.z, v2_result.y)

\* C12: after any sequence of add_relation calls, the relation list and the
\* adjacency hold every edge in the same orientation: for all nodes a and b,
\* some relation has source a and target b exactly when b occurs in
\* adjacency[a].
C12_RelationsAndAdjacencyAgree ==
    \A a \in v2_names(v2_nodes), b \in v2_names(v2_nodes) :
        v2_edge(v2_relations, a, b)
            <=> (\E i \in 1..Len(v2_adjacency[a]) : v2_adjacency[a][i][1] = b)

\* C19: every triple (x, z, y) returned by get_all_possible_triples is
\* classified by determine_relation_type as SERIES, DIVERGENTE or CONVERGENTE,
\* never None.
C19_EveryPossibleTripleIsClassified ==
    \A t \in v2_get_all_possible_triples(v2_nodes, v2_relations) :
        v2_determine_relation_type(v2_relations, t[1], t[2], t[3])
            \in {SERIES, DIVERGENTE, CONVERGENTE}

(***************************************************************************)
(* Properties of tp.py                                                     *)
(***************************************************************************)

\* The rule of flow on the triple (a, b, c) of a path of the undirected graph:
\* at a collider (a -> b <- c) the information passes when b is connu, at a
\* chain or a fork it passes when b is inconnu.
TpTriplePermitsFlow(a, b, c) ==
    IF <<a, b>> \in Range(tp_relations) /\ <<c, b>> \in Range(tp_relations)
    THEN tp_etats[b] = CONNU
    ELSE tp_etats[b] = INCONNU

\* The simple paths from start_node all of whose overlapping triples permit flow
TpFlowPermittingPaths(start_node) ==
    {p \in tp_all_simple_paths(tp_variables, tp_relations, start_node) :
        \A i \in 1..(Len(p) - 2) : TpTriplePermitsFlow(p[i], p[i + 1], p[i + 2])}

\* C9: when every overlapping triple of a simple path from the start node
\* permits flow, circulation_information reports that path whole: it is one of
\* the reported paths, or the beginning of one (never cut short).
C9_FlowPermittingPathReportedWhole ==
    (tp_result # NoResult /\ tp_result.kind \in {"chemins", "aucun"}) =>
        \A p \in TpFlowPermittingPaths(tp_result.start_node) :
            \E q \in tp_result.chemins : p = q \/ IsProperPrefix(p, q)

\* C10: no path reported by circulation_information is a proper prefix of
\* another one reported by the same call: the reported paths are exactly the
\* maximal flow-permitting paths from the start node.
C10_ReportedPathsAreTheMaximalOnes ==
    (tp_result # NoResult /\ tp_result.kind \in {"chemins", "aucun"}) =>
        /\ \A p \in tp_result.chemins, q \in tp_result.chemins : ~IsProperPrefix(p, q)
        /\ tp_result.chemins =
              {p \in TpFlowPermittingPaths(tp_result.start_node) :
                  \A q \in TpFlowPermittingPaths(tp_result.start_node) :
                      ~IsProperPrefix(p, q)}

(***************************************************************************)
(* Properties of the two BayesianNetwork classes together                  *)
(***************************************************************************)

\* The state the call recorded in call gives to name, None when the call does
\* not name it.  add_relation registers its source before its target.
GivenState(call, name) ==
    IF call.call = "add_node"
    THEN IF call.name = name THEN call.state ELSE None
    ELSE IF call.call = "add_relation"
    THEN IF call.source = name THEN call.source_state
         ELSE IF call.target = name THEN call.target_state ELSE None
    ELSE None

\* From one node list to the next: every node keeps its state, a name new to
\* the list holds the state the call gave it, and no name occurs twice.
NodesKeepFirstState(names_before, state_before(_), nodes_after, names_after,
                    state_after(_), call) ==
    /\ \A n \in names_before :
          n \in names_after /\ state_after(n) = state_before(n)
    /\ \A n \in names_after \ names_before : state_after(n) = GivenState(call, n)
    /\ Cardinality(names_after) = Len(nodes_after)

\* C11: in v2.py and in Bayesian_Causality.py, a call of add_node or
\* add_relation leaves every registered node with the state it had, gives a
\* name it registers the state of the call, and never makes a second node of a
\* name: each node's state is the one given when its name was first registered.
C11_StateOfFirstRegistrationKept ==
    [][/\ LET before(n) == bc_state_of(bc_nodes, n)
              after(n) == bc_state_of(bc_nodes', n)
          IN  NodesKeepFirstState(bc_names(bc_nodes), before, bc_nodes',
                                  bc_names(bc_nodes'), after, bc_result')
       /\ LET before(n) == v2_state_of(v2_nodes, n)
              after(n) == v2_state_of(v2_nodes', n)
          IN  NodesKeepFirstState(v2_names(v2_nodes), before, v2_nodes',
                                  v2_names(v2_nodes'), after, bc_result')]_vars

\* C11 witness: the last call named a node registered before with the other
\* state, as a relation endpoint or directly, and both networks kept the state
C11_Witness ==
    /\ bc_result.call \in {"add_node", "add_relation"}
    /\ \E n \in bc_names(bc_nodes) :
          /\ GivenState(bc_result, n) \in NodeState
          /\ GivenState(bc_result, n) # bc_state_of(bc_nodes, n)
          /\ GivenState(bc_result, n) # v2_state_of(v2_nodes, n)

\* C15: circulation_information and justifier_chemin leave variables,
\* relations and etats unchanged, so justifier_chemin called again on a reported
\* path gives the justification trace that was shown with that path.
C15_AnalysisKeepsNoHiddenState ==
    [][/\ tp_result'.call \in {"circulation_information", "justifier_chemin"}
          => UNCHANGED <<tp_variables, tp_relations, tp_etats>>
       /\ tp_result'.call = "justifier_chemin"
          => <<tp_result'.chemin, tp_result'.value>>
                \in tp_result'.shown.justifications]_vars

\* C15 witness: justifier_chemin called again on a reported path of three
\* variables or more, whose trace holds a line
C15_Witness ==
    /\ tp_result.call = "justifier_chemin"
    /\ Len(tp_result.chemin) >= 3
    /\ tp_result.value # <<>>

(***************************************************************************)
(* Properties of the reported paths of Bayesian_Causality.py               *)
(***************************************************************************)

RECURSIVE WithoutRepeats(_)
\* s with every run of one name reduced to a single occurrence: the node
\* sequence of a reported path, in which the name that ends one path_segment
\* and starts the next is written twice
WithoutRepeats(s) ==
    IF Len(s) <= 1 THEN s
    ELSE IF s[1] = s[2] THEN WithoutRepeats(Tail(s))
    ELSE <<s[1]>> \o WithoutRepeats(Tail(s))

\* The single-triple rule at b between a and c, over the FORWARD relations: a
\* collider passes while b is KNOWN, a chain or a fork while b is UNKNOWN
BcJunctionAllowsFlow(nodes, relations, a, b, c) ==
    LET edge(s, t) == \E r \in Range(relations) :
                         r.source = s /\ r.target = t /\ r.direction = FORWARD
    IN  IF edge(a, b) /\ edge(b, c) THEN FlowRule(SERIES, bc_state_of(nodes, b))
        ELSE IF edge(b, a) /\ edge(b, c)
        THEN FlowRule(DIVERGENTE, bc_state_of(nodes, b))
        ELSE IF edge(a, b) /\ edge(c, b)
        THEN FlowRule(CONVERGENTE, bc_state_of(nodes, b))
        ELSE FALSE

\* C17: every path reported by compute_final_path permits flow at every
\* junction: for every three consecutive nodes of its node sequence the
\* single-triple rule allows flow at the middle one.
C17_ReportedPathsPermitFlow ==
    (bc_result # NoResult /\ bc_result.kind = "paths")
    => \A p \in BcReportedNodeSequences(bc_result) :
          LET q == WithoutRepeats(p) IN
          \A i \in 1..(Len(q) - 2) :
              BcJunctionAllowsFlow(bc_nodes, bc_relations, q[i], q[i + 1], q[i + 2])

\* Some arrangement (a, b, c) of the three names has a series (a -> b, b -> c),
\* divergent (b -> a, b -> c) or convergent (a -> b, c -> b) edge pattern
TpHasPattern(three) ==
    \E a \in three, b \in three, c \in three :
        /\ a # b /\ b # c /\ a # c
        /\ \/ <<a, b>> \in Range(tp_relations) /\ <<b, c>> \in Range(tp_relations)
           \/ <<b, a>> \in Range(tp_relations) /\ <<b, c>> \in Range(tp_relations)
           \/ <<a, b>> \in Range(tp_relations) /\ <<c, b>> \in Range(tp_relations)

\* C20: for any three declared variables of which some arrangement has a
\* series, divergent or convergent edge pattern, detecter_relations_triplet
\* reports a classification of these three variables, whatever the order in
\* which they were declared.
C20_EveryPatternedTripletReported ==
    (tp_result.call = "detecter_relations_triplet" /\ tp_result.kind = "triplets")
    => \A three \in SUBSET Range(tp_variables) :
          (Cardinality(three) = 3 /\ TpHasPattern(three))
          => \E i \in 1..Len(tp_result.resultats) :
                {tp_result.resultats[i].a, tp_result.resultats[i].b,
                 tp_result.resultats[i].c} = three


(***************************************************************************)
(* Properties of get_all_paths of v2.py                                    *)
(***************************************************************************)
\* The value of the last call, when that call was get_all_paths
V2PathsReturned == v2_result.call = "get_all_paths"

\* b is a neighbour listed in adjacency[a]
V2Neighbour(a, b) ==
    \E k \in 1..Len(v2_adjacency_get(v2_adjacency, a)) :
        v2_adjacency_get(v2_adjacency, a)[k][1] = b

\* p repeats no node
V2Simple(p) == \A i, j \in 1..Len(p) : p[i] = p[j] => i = j

\* C21: every path returned by get_all_paths(start) begins at start, has at
\* least two nodes, repeats no node except that its last node may equal its
\* first (and then it has at least four entries), and every consecutive pair
\* (a, b) of it has b in adjacency[a].
C21_ReturnedPathsAreWellFormed ==
    V2PathsReturned =>
        \A n \in 1..Len(v2_result.value.paths) :
            LET p == v2_result.value.paths[n]
            IN  /\ Len(p) >= 2
                /\ p[1] = v2_result.start
                /\ \/ V2Simple(p)
                   \/ /\ Len(p) >= 4
                      /\ p[Len(p)] = p[1]
                      /\ V2Simple(SubSeq(p, 1, Len(p) - 1))
                /\ \A i \in 1..(Len(p) - 1) : V2Neighbour(p[i], p[i + 1])

\* A call returned a closed cycle of four entries and a path of three nodes
C21_Witness ==
    /\ V2PathsReturned
    /\ \E n \in 1..Len(v2_result.value.paths) :
          LET p == v2_result.value.paths[n]
          IN  Len(p) = 4 /\ p[4] = p[1]
    /\ \E n \in 1..Len(v2_result.value.paths) :
          Len(v2_result.value.paths[n]) = 3

\* C22: get_all_paths(start) terminates on every graph, with directed cycles,
\* self-loops and parallel edges or without, and the depth of the recursion of
\* dfs is never more than the number of distinct nodes.
C22_RecursionDepthBoundedByNodes ==
    V2PathsReturned =>
        /\ v2_result.value.depth >= 1
        /\ v2_result.value.depth <= Cardinality(v2_names(v2_nodes))

\* A call on a graph with a self-loop and a repeated relation went as deep as
\* there are nodes
C22_Witness ==
    /\ V2PathsReturned
    /\ \E k \in 1..Len(v2_relations) : v2_relations[k].source = v2_relations[k].target
    /\ \E j, k \in 1..Len(v2_relations) : j # k /\ v2_relations[j] = v2_relations[k]
    /\ v2_result.value.depth = Cardinality(v2_names(v2_nodes))
    /\ v2_result.value.depth >= 2

\* C23: the list returned by get_all_paths(start) holds no node sequence
\* twice, repeated relations or not.
C23_NoSequenceReturnedTwice ==
    V2PathsReturned =>
        \A m, n \in 1..Len(v2_result.value.paths) :
            v2_result.value.paths[m] = v2_result.value.paths[n] => m = n


(***************************************************************************)
(* Properties of the paths shown by circulation_information of tp.py       *)
(***************************************************************************)
\* The pattern of the triple (a, b, c) in relations, "" when it has none
TpPattern(a, b, c) ==
    IF <<a, b>> \in Range(tp_relations) /\ <<b, c>> \in Range(tp_relations)
    THEN "série"
    ELSE IF <<b, a>> \in Range(tp_relations) /\ <<b, c>> \in Range(tp_relations)
    THEN "divergence"
    ELSE IF <<a, b>> \in Range(tp_relations) /\ <<c, b>> \in Range(tp_relations)
    THEN "convergence"
    ELSE ""

\* The triple (a, b, c) has a pattern and its middle node lets the flow pass
TpClassifiedAndPermitsFlow(a, b, c) ==
    /\ TpPattern(a, b, c) # ""
    /\ tp_etats[b] = (IF TpPattern(a, b, c) = "convergence" THEN CONNU ELSE INCONNU)

\* C24: every path shown by circulation_information starts at the start node
\* and every overlapping triple of it has a pattern and permits flow; the
\* justifications of justifier_chemin for a shown path p are Len(p) - 2 lines,
\* one per triple in the order of the path, each saying that the information
\* passes.
C24_ShownPathsAreJustifiedWhole ==
    (tp_result.call = "circulation_information" /\ tp_result.kind = "chemins") =>
        /\ \A chemin \in tp_result.chemins :
              /\ Len(chemin) >= 2
              /\ chemin[1] = tp_result.start_node
              /\ \A i \in 1..(Len(chemin) - 2) :
                    TpClassifiedAndPermitsFlow(chemin[i], chemin[i + 1], chemin[i + 2])
              /\ \E j \in tp_result.justifications : j[1] = chemin
        /\ \A j \in tp_result.justifications :
              /\ j[1] \in tp_result.chemins
              /\ Len(j[2]) = Len(j[1]) - 2
              /\ \A i \in 1..Len(j[2]) :
                    /\ j[2][i].triple = <<j[1][i], j[1][i + 1], j[1][i + 2]>>
                    /\ j[2][i].structure = TpPattern(j[1][i], j[1][i + 1], j[1][i + 2])
                    /\ j[2][i].raison[1] = "l'information passe car"

\* A path of four names was shown with its two justifications, of two patterns
C24_Witness ==
    /\ tp_result.call = "circulation_information"
    /\ tp_result.kind = "chemins"
    /\ \E j \in tp_result.justifications :
          /\ Len(j[1]) = 4
          /\ Len(j[2]) = 2
          /\ j[2][1].structure # j[2][2].structure


(***************************************************************************)
(* Properties of the network built by add_node and add_relation of v2.py   *)
(***************************************************************************)
RECURSIVE V2AdjacencyEntries(_)
\* The number of entries in the adjacency lists of the names of S
V2AdjacencyEntries(S) ==
    IF S = {} THEN 0
    ELSE LET a == CHOOSE x \in S : TRUE
         IN  Len(v2_adjacency[a]) + V2AdjacencyEntries(S \ {a})

\* The keys of adjacency are the keys of nodes, relations and adjacency name
\* registered nodes only, and adjacency holds one entry per relation
V2NetworkIsConsistent ==
    /\ DOMAIN v2_adjacency = v2_names(v2_nodes)
    /\ \A i, j \in 1..Len(v2_nodes) : v2_nodes[i].name = v2_nodes[j].name => i = j
    /\ \A k \in 1..Len(v2_relations) :
          {v2_relations[k].source, v2_relations[k].target} \subseteq v2_names(v2_nodes)
    /\ \A a \in DOMAIN v2_adjacency : \A k \in 1..Len(v2_adjacency[a]) :
          v2_adjacency[a][k][1] \in v2_names(v2_nodes)
    /\ V2AdjacencyEntries(DOMAIN v2_adjacency) = Len(v2_relations)

\* A step that is add_relation called without states registers its new
\* endpoints as UNKNOWN, and no step changes the state of a registered node
V2DefaultStateIsUnknown ==
    /\ (v2_result' = [call |-> "add_relation", states |-> "default"]
        /\ v2_relations' # v2_relations) =>
           \A n \in v2_names(v2_nodes') \ v2_names(v2_nodes) :
               v2_state_of(v2_nodes', n) = UNKNOWN
    /\ \A n \in v2_names(v2_nodes) :
           n \in v2_names(v2_nodes') /\ v2_state_of(v2_nodes', n) = v2_state_of(v2_nodes, n)

\* C25: after any sequence of add_node and add_relation calls the key set of
\* adjacency is the key set of nodes, every relation endpoint and every
\* adjacency neighbour is a registered node, adjacency holds as many entries as
\* there are relations, and a node first seen as an endpoint of add_relation
\* called without states has state UNKNOWN (then and ever after).
C25_NetworkConsistentAndDefaultUnknown ==
    []V2NetworkIsConsistent /\ [][V2DefaultStateIsUnknown]_vars

\* add_relation without states has just registered the third node, next to a
\* KNOWN one, in a network of three relations
C25_Witness ==
    /\ v2_result = [call |-> "add_relation", states |-> "default"]
    /\ Len(v2_nodes) = 3 /\ Len(v2_relations) = 3
    /\ v2_nodes[3].state = UNKNOWN
    /\ v2_nodes[3].name \in {v2_relations[3].source, v2_relations[3].target}
    /\ \A k \in 1..2 :
          v2_nodes[3].name \notin {v2_relations[k].source, v2_relations[k].target}
    /\ \E i \in 1..2 : v2_nodes[i].state = KNOWN


(***************************************************************************)
(* Properties of the declarations of tp.py                                 *)
(***************************************************************************)
\* variables holds no empty and no repeated name, each with an entry in etats;
\* relations holds no self-loop, no repeated pair and no undeclared endpoint
TpDeclarationsAreWellFormed ==
    /\ \A i \in 1..Len(tp_variables) : tp_variables[i] # ""
    /\ \A i, j \in 1..Len(tp_variables) : tp_variables[i] = tp_variables[j] => i = j
    /\ Range(tp_variables) \subseteq DOMAIN tp_etats
    /\ \A k \in 1..Len(tp_relations) :
          /\ tp_relations[k][1] # tp_relations[k][2]
          /\ {tp_relations[k][1], tp_relations[k][2]} \subseteq Range(tp_variables)
    /\ \A j, k \in 1..Len(tp_relations) : tp_relations[j] = tp_relations[k] => j = k

\* The name left of the entry is empty or declared already
TpVariableRejected(entry) ==
    \/ entry \in {"", " "}
    \/ \E n \in Range(tp_variables) : entry \in {n, " " \o n, n \o " "}

\* An endpoint is undeclared, cause is effet, or the pair is present already
TpRelationRejected(cause, effet) ==
    \/ cause \notin Range(tp_variables)
    \/ effet \notin Range(tp_variables)
    \/ cause = effet
    \/ \E k \in 1..Len(tp_relations) : tp_relations[k] = <<cause, effet>>

\* A step that changes variables, etats or relations is no rejected call
TpRejectedCallChangesNothing ==
    \/ UNCHANGED <<tp_variables, tp_etats, tp_relations>>
    \/ /\ \A entry \in TpEntries, etat \in Etats :
              ~(TpVariableRejected(entry) /\ TpAjouterVariable(entry, etat))
       /\ \A cause \in Range(NamesTP) \cup {""}, effet \in Range(NamesTP) \cup {""} :
              ~(TpRelationRejected(cause, effet) /\ TpAjouterRelation(cause, effet))

\* C26: after any sequence of ajouter_variable and ajouter_relation calls,
\* variables holds no empty and no repeated name, every variable has an entry
\* in etats, and relations holds no self-loop, no repeated ordered pair and no
\* pair with an undeclared endpoint; a rejected call (empty or existing name;
\* relation with an undeclared endpoint, with cause equal to effet, or present
\* already) leaves variables, etats and relations unchanged.
C26_DeclarationsWellFormedAndRejectionsInert ==
    []TpDeclarationsAreWellFormed /\ [][TpRejectedCallChangesNothing]_vars

\* Three variables of both states and three relations are declared, so that
\* every kind of rejected call can be made, and the last call was a declaration
C26_Witness ==
    /\ Len(tp_variables) = 3 /\ Len(tp_relations) = 3
    /\ \E v, w \in Range(tp_variables) : tp_etats[v] = CONNU /\ tp_etats[w] = INCONNU
    /\ tp_result = NoResult

====
